---------------------------- MODULE Spec2Model ----------------------------
(***************************************************************************)
(* A model of sscm_reader (src/src/sscm_reader/__init__.py): the SSCM      *)
(* header decoder read_header, the entry loop of read_sscm, the frame      *)
(* assembly at its end, and the per-file loop of read_sscm_folder.         *)
(*                                                                         *)
(* A file is a sequence of bytes 0..255; the cursor `pos` is f.tell().     *)
(* f.read(n) returns the bytes that are there (fewer than n at the end of  *)
(* the file) and advances the cursor by the number of bytes returned.      *)
(* struct.unpack raises struct.error unless it is handed exactly the       *)
(* number of bytes of its format.                                          *)
(*                                                                         *)
(* Numbers wider than 31 bits are kept exactly, in limbs:                  *)
(* a signed 64-bit value is [hi, mid, lo] with value hi*2^48+mid*2^24+lo   *)
(* (hi signed 16 bits), an unsigned 32-bit value is [hi, lo] in 16-bit     *)
(* halves, and a 32-bit float is its IEEE-754 fields [sign, exp, mant].    *)
(***************************************************************************)
EXTENDS Integers, Sequences, FiniteSets, TLC

VARIABLES
    call,      \* the frame of the running read_sscm call (file, cursor, locals)
    ns_bounds, \* the pandas build: TRUE when to_datetime(unit='ms') yields
               \* nanosecond timestamps and raises OutOfBoundsDatetime beyond them
    input,     \* how the file of a single read_sscm call was assembled (history)
    folder     \* the frame of read_sscm_folder (unused by a single call)

vars == <<call, ns_bounds, input, folder>>

----------------------------------------------------------------------------
(* Small helpers *)

Min(a, b) == IF a < b THEN a ELSE b

RECURSIVE Flatten(_)
Flatten(ss) == IF ss = <<>> THEN <<>> ELSE Head(ss) \o Flatten(Tail(ss))

----------------------------------------------------------------------------
(* The file object *)

\* f.read(n) at cursor pos: the bytes returned
FRead(data, pos, n) == SubSeq(data, pos + 1, Min(pos + n, Len(data)))

\* an exception value: the exception's type, what it is about, and the
\* values its message carries
Exc(type, what, args) == [type |-> type, what |-> what, args |-> args]

NoErr == Exc("none", "none", <<>>)

----------------------------------------------------------------------------
(* struct.unpack: each returns [ok, v]; ok is FALSE for struct.error *)

StructError == [ok |-> FALSE, v |-> 0]

\* 'B': one unsigned byte
unpack_B(b) == IF Len(b) = 1 THEN [ok |-> TRUE, v |-> b[1]] ELSE StructError

\* 'H': unsigned 16 bits, little-endian
unpack_H(b) ==
    IF Len(b) = 2 THEN [ok |-> TRUE, v |-> b[1] + 256 * b[2]] ELSE StructError

\* 'I': unsigned 32 bits, little-endian, in 16-bit halves
unpack_I(b) ==
    IF Len(b) = 4
    THEN [ok |-> TRUE, v |-> [hi |-> b[3] + 256 * b[4], lo |-> b[1] + 256 * b[2]]]
    ELSE StructError

\* 'q': signed 64 bits, little-endian, in limbs
unpack_q(b) ==
    IF Len(b) = 8
    THEN [ok |-> TRUE,
          v  |-> [hi  |-> LET u == b[7] + 256 * b[8]
                          IN  IF u >= 32768 THEN u - 65536 ELSE u,
                  mid |-> b[4] + 256 * b[5] + 65536 * b[6],
                  lo  |-> b[1] + 256 * b[2] + 65536 * b[3]]]
    ELSE StructError

\* unpack_f with a short buffer padded with zero bytes instead of refused
unpack_f_Padded(b) ==
    LET p == b \o SubSeq(<<0, 0, 0, 0>>, 1, 4 - Len(b))
    IN  [ok |-> TRUE,
         v  |-> [sign |-> p[4] \div 128,
                 exp  |-> (p[4] % 128) * 2 + p[3] \div 128,
                 mant |-> (p[3] % 128) * 65536 + p[2] * 256 + p[1]]]

\* 'f': IEEE-754 binary32, little-endian, as its fields
unpack_f(b) ==
    IF Len(b) = 4
    THEN [ok |-> TRUE,
          v  |-> [sign |-> b[4] \div 128,
                  exp  |-> (b[4] % 128) * 2 + b[3] \div 128,
                  mant |-> (b[3] % 128) * 65536 + b[2] * 256 + b[1]]]
    ELSE StructError

\* bytes.decode("ascii"): UnicodeDecodeError on a byte above 127
AsciiOk(b) == \A i \in 1..Len(b) : b[i] < 128

----------------------------------------------------------------------------
(* Module constants *)

labels == <<"vehicle", "honking", "aircraft", "siren", "human",
            "bark", "bird", "church", "music", "wind", "rain">>

\* b'\x00\x00cityai_sc_sensor_v'
Magic == <<0, 0, 99, 105, 116, 121, 97, 105, 95, 115, 99, 95,
           115, 101, 110, 115, 111, 114, 95, 118>>

\* '01'
Version01 == <<48, 49>>

\* b'\xff\xff'
Marker == <<255, 255>>

----------------------------------------------------------------------------
(* read_header(f), called with the cursor at 0: [ok, pos, err, ...] *)

HeaderFail(pos, e) ==
    [ok |-> FALSE, pos |-> pos, err |-> e, format_version |-> <<>>,
     file_created_ts |-> [hi |-> 0, lo |-> 0], sensor_name |-> <<>>,
     num_source_classes |-> 0]

\* the comparison of line 38
VersionSupported(format_version) == format_version = Version01

\* the label count of the header taken as it comes
LabelCountMatches_Any(num_source_classes) == TRUE

\* the comparison of line 48
LabelCountMatches(num_source_classes) == num_source_classes = Len(labels)

read_header(data) ==
    LET magic == FRead(data, 0, 20)
        p1    == Len(magic)
        ver   == FRead(data, p1, 2)
        p2    == p1 + Len(ver)
        tsb   == FRead(data, p2, 4)
        p3    == p2 + Len(tsb)
        ts    == unpack_I(tsb)
        lenb  == FRead(data, p3, 1)
        p4    == p3 + Len(lenb)
        nlen  == unpack_B(lenb)
        name  == FRead(data, p4, nlen.v)
        p5    == p4 + Len(name)
        clsb  == FRead(data, p5, 1)
        p6    == p5 + Len(clsb)
        cls   == unpack_B(clsb)
    IN  IF magic # Magic
        THEN HeaderFail(p1, Exc("RuntimeError", "Unexpected file format", <<magic>>))
        ELSE IF ~AsciiOk(ver)
        THEN HeaderFail(p2, Exc("UnicodeDecodeError", "format_version", <<>>))
        ELSE IF ~VersionSupported(ver)
        THEN HeaderFail(p2, Exc("RuntimeError",
                                "SSCM format version not supported", <<ver>>))
        ELSE IF ~ts.ok
        THEN HeaderFail(p3, Exc("struct.error", "file_created_ts", <<>>))
        ELSE IF ~nlen.ok
        THEN HeaderFail(p4, Exc("struct.error", "sensor_name_len", <<>>))
        ELSE IF ~AsciiOk(name)
        THEN HeaderFail(p5, Exc("UnicodeDecodeError", "sensor_name", <<>>))
        ELSE IF ~cls.ok
        THEN HeaderFail(p6, Exc("struct.error", "num_source_classes", <<>>))
        ELSE IF ~LabelCountMatches(cls.v)
        THEN HeaderFail(p6, Exc("RuntimeError", "labels do not match",
                                <<Len(labels), cls.v>>))
        ELSE [ok |-> TRUE, pos |-> p6, err |-> NoErr, format_version |-> ver,
              file_created_ts |-> ts.v,
              sensor_name |-> SubSeq(name, 1, Min(nlen.v, Len(name))),
              num_source_classes |-> cls.v]


----------------------------------------------------------------------------
(* Values computed in the entry loop *)

Zero64 == [hi |-> 0, mid |-> 0, lo |-> 0]

\* a <= b for signed 64-bit values in limbs
Int64Leq(a, b) ==
    \/ a.hi < b.hi
    \/ a.hi = b.hi /\ a.mid < b.mid
    \/ a.hi = b.hi /\ a.mid = b.mid /\ a.lo <= b.lo

\* pd.Timestamp.max and pd.Timestamp.min in whole milliseconds
\* (+-9223372036854 ms): the range of a nanosecond timestamp
TimestampMaxMs == [hi |-> 0, mid |-> 549755, lo |-> 13654774]
TimestampMinMs == [hi |-> -1, mid |-> 16227460, lo |-> 3122442]

\* pd.to_datetime(time_ms, unit='ms') returns (TRUE) or raises
\* OutOfBoundsDatetime (FALSE); ns is the pandas build (see ns_bounds)
to_datetime_ok(time_ms, ns) ==
    ns => Int64Leq(TimestampMinMs, time_ms) /\ Int64Leq(time_ms, TimestampMaxMs)

IsNaN(x) == x.exp = 255 /\ x.mant # 0
IsInf(x) == x.exp = 255 /\ x.mant = 0

\* 10 ** (dba / 10) raises OverflowError: the result exceeds the largest
\* double, which happens from dba = 3082.54736328125 (0x4540A8C2) upward,
\* for every finite dba; inf and nan raise nothing
SplOverflows(dba) ==
    /\ dba.sign = 0
    /\ dba.exp < 255
    /\ \/ dba.exp > 138
       \/ dba.exp = 138 /\ dba.mant >= 4237506

\* the value of 10 ** (dba / 10) where it raises nothing: nan for nan, inf
\* for +inf, 0.0 for -inf, and otherwise the power, kept as the function of
\* dba that it is
Spl(dba) ==
    IF IsNaN(dba) THEN [kind |-> "nan", of |-> dba]
    ELSE IF IsInf(dba) /\ dba.sign = 0 THEN [kind |-> "inf", of |-> dba]
    ELSE IF IsInf(dba) THEN [kind |-> "zero", of |-> dba]
    ELSE [kind |-> "pow10", of |-> dba]

----------------------------------------------------------------------------
(* lines 136-148: the rows of the five DataFrames *)

\* a < b for floats that are not nan
MagLess(a, b) == a.exp < b.exp \/ (a.exp = b.exp /\ a.mant < b.mant)

IsZero(x) == x.exp = 0 /\ x.mant = 0

FloatLess(a, b) ==
    IF IsZero(a) /\ IsZero(b) THEN FALSE
    ELSE IF a.sign # b.sign THEN a.sign = 1
    ELSE IF a.sign = 0 THEN MagLess(a, b)
    ELSE MagLess(b, a)

\* line 144: source.iloc[:, 1:].idxmax(axis=1) of one row: the label of the
\* first largest value, nan skipped ("nan" for a row of nothing but nan)
IdxMax(probs) ==
    LET cand == {i \in 1..Len(probs) :
                     /\ ~IsNaN(probs[i])
                     /\ \A j \in 1..Len(probs) :
                            ~IsNaN(probs[j]) => ~FloatLess(probs[i], probs[j])}
    IN  IF cand = {} THEN "nan"
        ELSE labels[CHOOSE i \in cand : \A j \in cand : i <= j]

\* pd.to_datetime(frame['time'], unit='ms') of a whole column
ColumnOk(rows, ns) == \A i \in 1..Len(rows) : to_datetime_ok(rows[i][1], ns)

LoudnessFrame(rows) ==
    [i \in 1..Len(rows) |->
        [time |-> rows[i][1], dba |-> rows[i][2], spl_a |-> rows[i][3]]]

SharpnessFrame(rows) ==
    [i \in 1..Len(rows) |-> [time |-> rows[i][1], sharpness |-> rows[i][2]]]

SourceFrame(rows) ==
    [i \in 1..Len(rows) |->
        [time |-> rows[i][1], probs |-> Tail(rows[i]),
         label |-> IdxMax(Tail(rows[i]))]]

VoltageFrame(rows) ==
    [i \in 1..Len(rows) |-> [time |-> rows[i][1], mV |-> rows[i][2]]]

EventFrame(rows) ==
    [i \in 1..Len(rows) |->
        [time |-> rows[i][1], event |-> rows[i][2], value |-> rows[i][3]]]

----------------------------------------------------------------------------
(* The frame of one read_sscm(path) call, add_tz_hours=None *)

NoReturn == [returned |-> FALSE]

NewCall(data) ==
    [data |-> data, pos |-> 0, file_size |-> Len(data), pc |-> "open",
     sensor_name |-> <<>>, num_source_classes |-> 0,
     entry_type |-> 0, time_ms |-> Zero64,
     loudness |-> <<>>, sharpness |-> <<>>, source |-> <<>>,
     voltage |-> <<>>, event_log |-> <<>>,
     stdout |-> <<>>, err |-> NoErr, ret |-> NoReturn,
     \* history: the cursor at the top of the current iteration, the cursor
     \* where its entry_type is read, the cursor at the first iteration, and
     \* the iterations completed
     iter_start |-> 0, entry_start |-> 0, body_start |-> 0, iters |-> 0]

\* an exception swallowed by read_sscm, which hands back what it has decoded
Raise_ReturnsPartial(c, pos, e) ==
    [c EXCEPT !.pos = pos, !.pc = "returned", !.err = e,
              !.ret = [returned    |-> TRUE,
                       sensor_name |-> c.sensor_name,
                       loudness    |-> LoudnessFrame(c.loudness),
                       sharpness   |-> SharpnessFrame(c.sharpness),
                       source      |-> SourceFrame(c.source),
                       voltage     |-> VoltageFrame(c.voltage),
                       event_log   |-> EventFrame(c.event_log)]]

\* an exception leaves read_sscm
Raise(c, pos, e) == [c EXCEPT !.pos = pos, !.pc = "raised", !.err = e]

\* lines 85-90: open the file, take its size, read the header
StepOpen(c) ==
    LET h == read_header(c.data)
    IN  IF h.ok
        THEN [c EXCEPT !.pos = h.pos, !.pc = "while",
                       !.sensor_name = h.sensor_name,
                       !.num_source_classes = h.num_source_classes,
                       !.body_start = h.pos]
        ELSE Raise(c, h.pos, h.err)

\* line 91: while f.tell() < file_size
StepWhile(c) ==
    IF c.pos < c.file_size
    THEN [c EXCEPT !.pc = "marker", !.iter_start = c.pos]
    ELSE [c EXCEPT !.pc = "frames"]

\* the marker read without the seek back
AfterMarker_NoRewind(data, pos) == pos + Len(FRead(data, pos, 2))

\* lines 92-94: the cursor after the two-byte marker read: f.read(2), and
\* f.seek(f.tell() - 2) unless the bytes read are the marker
AfterMarker(data, pos) ==
    LET block == FRead(data, pos, 2)
        tell  == pos + Len(block)
    IN  IF block # Marker THEN tell - 2 ELSE tell

StepMarker(c) ==
    LET p == AfterMarker(c.data, c.pos)
    IN  IF p < 0
        THEN Raise(c, c.pos, Exc("OSError", "seek", <<p>>))
        ELSE [c EXCEPT !.pos = p, !.pc = "prefix", !.entry_start = p]

\* the prefix with time_ms read as 4 bytes
StepPrefix_ShortTime(c) ==
    LET tb == FRead(c.data, c.pos, 1)
        p1 == c.pos + Len(tb)
        et == unpack_B(tb)
        qb == FRead(c.data, p1, 4)
        p2 == p1 + Len(qb)
        tm == unpack_q(qb \o <<0, 0, 0, 0>>)
    IN  IF ~et.ok THEN Raise(c, p1, Exc("struct.error", "entry_type", <<>>))
        ELSE IF ~tm.ok
        THEN Raise([c EXCEPT !.entry_type = et.v], p2,
                   Exc("struct.error", "time_ms", <<>>))
        ELSE [c EXCEPT !.pos = p2, !.pc = "dispatch",
                       !.entry_type = et.v, !.time_ms = tm.v]

\* lines 95-96: entry_type and time_ms
StepPrefix(c) ==
    LET tb == FRead(c.data, c.pos, 1)
        p1 == c.pos + Len(tb)
        et == unpack_B(tb)
        qb == FRead(c.data, p1, 8)
        p2 == p1 + Len(qb)
        tm == unpack_q(qb)
    IN  IF ~et.ok THEN Raise(c, p1, Exc("struct.error", "entry_type", <<>>))
        ELSE IF ~tm.ok
        THEN Raise([c EXCEPT !.entry_type = et.v], p2,
                   Exc("struct.error", "time_ms", <<>>))
        ELSE [c EXCEPT !.pos = p2, !.pc = "dispatch",
                       !.entry_type = et.v, !.time_ms = tm.v]


----------------------------------------------------------------------------
(* line 97-134: the dispatch on entry_type *)

KnownTags == {0, 1, 2, 100, 110, 111, 120, 121}

\* the end of an iteration that raised nothing: back to the loop test
Continue(c) == [c EXCEPT !.pc = "while", !.iters = @ + 1]

\* one struct.unpack(fmt, f.read(n)) of a payload field: [ok, v, pos]
Field(unpacked, pos, bytes) ==
    [ok |-> unpacked.ok, v |-> unpacked.v, pos |-> pos + Len(bytes)]

ReadF(c, pos) ==
    LET b == FRead(c.data, pos, 4) IN Field(unpack_f(b), pos, b)

ReadH(c, pos) ==
    LET b == FRead(c.data, pos, 2) IN Field(unpack_H(b), pos, b)

\* lines 108-110: s = [time_ms], then num_source_classes floats appended one
\* read at a time; a failed read raises before source.append(s)
RECURSIVE ReadClasses(_, _, _, _)
ReadClasses(c, pos, n, s) ==
    IF n = 0 THEN [ok |-> TRUE, v |-> s, pos |-> pos]
    ELSE LET x == ReadF(c, pos)
         IN  IF ~x.ok THEN [ok |-> FALSE, v |-> s, pos |-> x.pos]
             ELSE ReadClasses(c, x.pos, n - 1, Append(s, x.v))

PayloadError(c, pos, what) == Raise(c, pos, Exc("struct.error", what, <<>>))

\* lines 98-106
Entry0(c, ns) ==
    LET dba == ReadF(c, c.pos)
        rsv == ReadF(c, dba.pos)
        at  == [c EXCEPT !.pos = rsv.pos]
    IN  IF ~dba.ok THEN PayloadError(c, dba.pos, "dba")
        ELSE IF ~rsv.ok THEN PayloadError(c, rsv.pos, "reserved")
        ELSE IF ~SplOverflows(dba.v)
        THEN Continue([at EXCEPT !.loudness =
                           Append(@, <<c.time_ms, dba.v, Spl(dba.v)>>)])
        \* except Exception: line 105 prints, then line 106 formats
        \* pd.to_datetime(time_ms, unit='ms') into its message
        ELSE IF ~to_datetime_ok(c.time_ms, ns)
        THEN Raise([at EXCEPT !.stdout = Append(@, <<105, Len(c.loudness)>>)],
                   rsv.pos,
                   Exc("OutOfBoundsDatetime", "print", <<c.time_ms>>))
        ELSE Continue([at EXCEPT !.stdout =
                           @ \o << <<105, Len(c.loudness)>>,
                                   <<106, c.entry_type, c.time_ms, dba.v>> >>])

\* lines 108-111
Entry1(c) ==
    LET s == ReadClasses(c, c.pos, c.num_source_classes, <<c.time_ms>>)
    IN  IF ~s.ok THEN PayloadError(c, s.pos, "source")
        ELSE Continue([c EXCEPT !.pos = s.pos, !.source = Append(@, s.v)])

\* lines 113-114
Entry2(c) ==
    LET x == ReadF(c, c.pos)
    IN  IF ~x.ok THEN PayloadError(c, x.pos, "sharp")
        ELSE Continue([c EXCEPT !.pos = x.pos,
                                !.sharpness = Append(@, <<c.time_ms, x.v>>)])

\* lines 116-117
Entry100(c) ==
    LET x == ReadH(c, c.pos)
    IN  IF ~x.ok THEN PayloadError(c, x.pos, "mV")
        ELSE Continue([c EXCEPT !.pos = x.pos,
                                !.voltage = Append(@, <<c.time_ms, x.v>>)])

\* lines 119 and 122
EntryEvent(c, name) ==
    Continue([c EXCEPT !.event_log = Append(@, <<c.time_ms, name, 0>>)])

\* lines 125-126
Entry120(c) ==
    LET x == ReadH(c, c.pos)
    IN  IF ~x.ok THEN PayloadError(c, x.pos, "seconds")
        ELSE Continue([c EXCEPT !.pos = x.pos,
                        !.event_log = Append(@, <<c.time_ms, "ENTER_SLEEP", x.v>>)])

\* the NIGHTLY_PD record appended to sharpness
Entry121_ToSharpness(c) ==
    LET x == ReadF(c, c.pos)
    IN  IF ~x.ok THEN PayloadError(c, x.pos, "sampling_rate")
        ELSE Continue([c EXCEPT !.pos = x.pos,
                                !.sharpness = Append(@, <<c.time_ms, x.v>>)])

\* lines 129-130
Entry121(c) ==
    LET x == ReadF(c, c.pos)
    IN  IF ~x.ok THEN PayloadError(c, x.pos, "sampling_rate")
        ELSE Continue([c EXCEPT !.pos = x.pos,
                        !.event_log = Append(@, <<c.time_ms, "NIGHTLY_PD", x.v>>)])

\* lines 133-134: the print formats pd.to_datetime(time_ms, unit='ms'),
\* then RuntimeError('Invalid entry type: ' + str(entry_type))
EntryElse(c, ns) ==
    IF ~to_datetime_ok(c.time_ms, ns)
    THEN Raise(c, c.pos, Exc("OutOfBoundsDatetime", "print", <<c.time_ms>>))
    ELSE Raise([c EXCEPT !.stdout = Append(@, <<133, c.entry_type, c.time_ms>>)],
               c.pos,
               Exc("RuntimeError", "Invalid entry type", <<c.entry_type>>))

StepDispatch(c, ns) ==
    CASE c.entry_type = 0   -> Entry0(c, ns)
      [] c.entry_type = 1   -> Entry1(c)
      [] c.entry_type = 2   -> Entry2(c)
      [] c.entry_type = 100 -> Entry100(c)
      [] c.entry_type = 110 -> EntryEvent(c, "TIME_FROM_NTP")
      [] c.entry_type = 111 -> EntryEvent(c, "TIME_FROM_RTC")
      [] c.entry_type = 120 -> Entry120(c)
      [] c.entry_type = 121 -> Entry121(c)
      [] OTHER              -> EntryElse(c, ns)


----------------------------------------------------------------------------
(* lines 136-159: the time columns converted, and the return *)

OutOfBounds(c, column) ==
    Raise(c, c.pos, Exc("OutOfBoundsDatetime", column, <<>>))

StepFrames(c, ns) ==
    IF ~ColumnOk(c.loudness, ns) THEN OutOfBounds(c, "loudness")
    ELSE IF ~ColumnOk(c.sharpness, ns) THEN OutOfBounds(c, "sharpness")
    ELSE IF ~ColumnOk(c.source, ns) THEN OutOfBounds(c, "source")
    ELSE IF ~ColumnOk(c.voltage, ns) THEN OutOfBounds(c, "voltage")
    ELSE IF ~ColumnOk(c.event_log, ns) THEN OutOfBounds(c, "event_log")
    ELSE [c EXCEPT !.pc = "returned",
                   !.ret = [returned    |-> TRUE,
                            sensor_name |-> c.sensor_name,
                            loudness    |-> LoudnessFrame(c.loudness),
                            sharpness   |-> SharpnessFrame(c.sharpness),
                            source      |-> SourceFrame(c.source),
                            voltage     |-> VoltageFrame(c.voltage),
                            event_log   |-> EventFrame(c.event_log)]]

----------------------------------------------------------------------------
(* read_sscm as a whole: one step, and the run to its end *)

Finished(c) == c.pc \in {"returned", "raised"}

Step(c, ns) ==
    CASE c.pc = "open"     -> StepOpen(c)
      [] c.pc = "while"    -> StepWhile(c)
      [] c.pc = "marker"   -> StepMarker(c)
      [] c.pc = "prefix"   -> StepPrefix(c)
      [] c.pc = "dispatch" -> StepDispatch(c, ns)
      [] c.pc = "frames"   -> StepFrames(c, ns)
      [] OTHER             -> c

RECURSIVE read_sscm(_, _)
read_sscm(c, ns) == IF Finished(c) THEN c ELSE read_sscm(Step(c, ns), ns)


----------------------------------------------------------------------------
(* read_sscm_folder(folder_path), add_tz_hours=None.  The files are the    *)
(* contents of sorted(sscm_files); a file's name is its place in that      *)
(* order.                                                                  *)

NoneResult == [returned |-> TRUE, none |-> TRUE]

NewFolder(files) ==
    [files |-> files, pc |-> "glob", i |-> 1,
     all_loudness |-> <<>>, all_sharpness |-> <<>>, all_sources |-> <<>>,
     all_voltage |-> <<>>, all_event_log |-> <<>>, sensor_names |-> <<>>,
     ret |-> NoReturn,
     \* history: what each read_sscm call handed back, by file
     results |-> <<>>]

\* no read_sscm_folder call is running: read_sscm was called directly
NoFolder == [NewFolder(<<>>) EXCEPT !.pc = "none"]

\* no read_sscm call has been made yet
IdleCall == [NewCall(<<>>) EXCEPT !.pc = "idle"]

\* lines 198-207: frame['filename'] and frame['sensor_id']
Tagged(frame, filename, sensor_name) ==
    [k \in 1..Len(frame) |->
        [row |-> frame[k], filename |-> filename, sensor_id |-> sensor_name]]

\* lines 175-189
StepGlob(fd) ==
    IF fd.files = <<>>
    THEN [fd EXCEPT !.pc = "returned", !.ret = NoneResult]
    ELSE [fd EXCEPT !.pc = "for"]

\* lines 198-215: read_sscm returned r for file fd.i
StepCollect(fd, r) ==
    [fd EXCEPT
        !.all_loudness  = Append(@, Tagged(r.loudness, fd.i, r.sensor_name)),
        !.all_sharpness = Append(@, Tagged(r.sharpness, fd.i, r.sensor_name)),
        !.all_sources   = Append(@, Tagged(r.source, fd.i, r.sensor_name)),
        !.all_voltage   = Append(@, Tagged(r.voltage, fd.i, r.sensor_name)),
        !.all_event_log = Append(@, Tagged(r.event_log, fd.i, r.sensor_name)),
        !.sensor_names  = Append(@, r.sensor_name),
        !.results = Append(@, r),
        !.i = @ + 1, !.pc = "for"]

\* lines 217-219: except Exception: print and continue
StepExcept(fd) ==
    [fd EXCEPT !.results = Append(@, NoReturn), !.i = @ + 1, !.pc = "for"]

\* sort_values('time'): the rows in time order, rows of equal time in the
\* order they had
InsertByTime(sorted, r) ==
    LET k == Cardinality({j \in 1..Len(sorted) :
                              Int64Leq(sorted[j].row.time, r.row.time)})
    IN  SubSeq(sorted, 1, k) \o <<r>> \o SubSeq(sorted, k + 1, Len(sorted))

RECURSIVE SortByTime(_)
SortByTime(rows) ==
    IF rows = <<>> THEN <<>>
    ELSE InsertByTime(SortByTime(SubSeq(rows, 1, Len(rows) - 1)), rows[Len(rows)])

\* pd.concat(frames, ignore_index=True) if frames else pd.DataFrame(), sorted
Merged(frames) == SortByTime(Flatten(frames))

\* lines 222-258
StepMerge(fd) ==
    [fd EXCEPT !.pc = "returned",
               !.ret = [returned         |-> TRUE,
                        none             |-> FALSE,
                        sensor_names     |-> fd.sensor_names,
                        merged_loudness  |-> Merged(fd.all_loudness),
                        merged_sharpness |-> Merged(fd.all_sharpness),
                        merged_sources   |-> Merged(fd.all_sources),
                        merged_voltage   |-> Merged(fd.all_voltage),
                        merged_event_log |-> Merged(fd.all_event_log)]]


----------------------------------------------------------------------------
(* The files the decoder is run on *)

\* bounds of the model
MaxEntries == 2
MaxCut == 3
MaxKeep == 1
MaxNameLen == 2
MaxFiles == 2

\* field encodings used to assemble files
T1000 == <<232, 3, 0, 0, 0, 0, 0, 0>>        \* time_ms = 1000
T2000 == <<208, 7, 0, 0, 0, 0, 0, 0>>        \* time_ms = 2000
TBig  == <<0, 0, 0, 0, 0, 0, 0, 64>>         \* time_ms = 2^62
F60   == <<0, 0, 112, 66>>                   \* 60.0
FHuge == <<202, 242, 73, 113>>               \* 1e30
FQuarter == <<0, 0, 128, 62>>                \* 0.25
H3300 == <<228, 12>>                         \* 3300

Shape(tag, time, payload) == [tag |-> tag, time |-> time, payload |-> payload]

ClassesPayload ==
    Flatten([i \in 1..Len(labels) |-> IF i = 3 THEN F60 ELSE FQuarter])

Shapes ==
    { Shape(0, T1000, F60 \o FQuarter),
      Shape(0, T2000, FHuge \o FQuarter),
      Shape(0, TBig, FHuge \o FQuarter),
      Shape(1, T1000, ClassesPayload),
      Shape(2, T2000, FQuarter),
      Shape(100, T1000, H3300),
      Shape(110, T2000, <<>>),
      Shape(111, TBig, <<>>),
      Shape(120, T1000, H3300),
      Shape(121, T2000, F60),
      Shape(200, T1000, <<>>) }

Header(magic, version, ts, name, classes) ==
    [magic |-> magic, version |-> version, ts |-> ts, name |-> name,
     classes |-> classes]

\* sensor "n7", created at 123456789
GoodHeader == Header(Magic, Version01, <<21, 205, 91, 7>>, <<110, 55>>, 11)

HeaderBytes(h) ==
    h.magic \o h.version \o h.ts \o <<Len(h.name)>> \o h.name \o <<h.classes>>

EntryBytes(e, marked) ==
    (IF marked THEN Marker ELSE <<>>) \o <<e.tag>> \o e.time \o e.payload

BodyBytes(script, marked) ==
    Flatten([i \in 1..Len(script) |-> EntryBytes(script[i], marked)])

\* an input: a header, the entries after it, whether each entry is preceded
\* by the marker, and the number of bytes of the whole that the file holds
Input(h, script, marked, n) ==
    [hdr |-> h, script |-> script, marked |-> marked, n |-> n]

FullBytes(in) == HeaderBytes(in.hdr) \o BodyBytes(in.script, in.marked)

FullLen(h, script, marked) ==
    Len(HeaderBytes(h)) + Len(BodyBytes(script, marked))

\* the whole file, and the file with its last k bytes missing
WholeInput(h, script, marked) ==
    Input(h, script, marked, FullLen(h, script, marked))

CutInput(h, script, marked, k) ==
    Input(h, script, marked, FullLen(h, script, marked) - k)

FileOf(in) == SubSeq(FullBytes(in), 1, in.n)

SeqsUpTo(S, n) == UNION {[1..k -> S] : k \in 0..n}

\* the file lengths tried for a header and a script: the whole file, and
\* the file cut inside its last entry (up to MaxCut bytes missing at its
\* end, or only its first 1..MaxKeep bytes present)
Lengths(h, script, marked) ==
    LET full == FullLen(h, script, marked)
        last == IF script = <<>> THEN 0
                ELSE Len(EntryBytes(script[Len(script)], marked))
    IN  {full} \cup {n \in {full - k : k \in 1..MaxCut}
                           \cup {full - last + k : k \in 1..MaxKeep} :
                        n > full - last /\ n < full}

BodyInputs ==
    UNION {{Input(GoodHeader, sm[1], sm[2], n) :
                n \in Lengths(GoodHeader, sm[1], sm[2])} :
           sm \in SeqsUpTo(Shapes, MaxEntries) \X BOOLEAN}

VersionBytes == {0, 48, 49, 50, 127, 128, 255}
NameBytes == {65, 200}
ClassCounts == {10, 11, 12}

OneEntry == <<Shape(110, T2000, <<>>)>>

HeaderInputs ==
    LET versions == {WholeInput([GoodHeader EXCEPT !.version = <<a, b>>],
                                OneEntry, FALSE) :
                        <<a, b>> \in VersionBytes \X VersionBytes}
        magics   == {WholeInput([GoodHeader EXCEPT !.magic = m], OneEntry, FALSE) :
                        m \in {[Magic EXCEPT ![1] = 1], [Magic EXCEPT ![20] = 119]}}
        named    == {[GoodHeader EXCEPT !.name = nm, !.classes = c] :
                        <<nm, c>> \in SeqsUpTo(NameBytes, MaxNameLen) \X ClassCounts}
        cuts     == UNION {{Input(h, OneEntry, FALSE, n) :
                               n \in 0..FullLen(h, OneEntry, FALSE)} :
                           h \in named}
    IN  versions \cup magics \cup cuts

Inputs == BodyInputs \cup HeaderInputs

\* the folder's files
FolderInputs ==
    { WholeInput(GoodHeader, <<>>, TRUE),
      WholeInput(GoodHeader, <<Shape(0, T1000, F60 \o FQuarter),
                               Shape(100, T2000, H3300)>>, TRUE),
      WholeInput([GoodHeader EXCEPT !.name = <<65>>],
                 <<Shape(100, T1000, H3300), Shape(200, T2000, <<>>)>>, FALSE),
      WholeInput(GoodHeader, <<Shape(2, T2000, FQuarter),
                               Shape(111, TBig, <<>>)>>, FALSE),
      CutInput(GoodHeader, <<Shape(100, T2000, H3300),
                             Shape(2, T1000, FQuarter)>>, TRUE, 2) }

Folders == SeqsUpTo({FileOf(in) : in \in FolderInputs}, MaxFiles)

NoInput == Input(GoodHeader, <<>>, FALSE, 0)

----------------------------------------------------------------------------
(* One read_sscm call on one file *)

\* the pandas builds that can differ on an input: they differ only on a
\* time_ms beyond the nanosecond range
Builds(in) ==
    IF \E i \in 1..Len(in.script) :
           ~to_datetime_ok(unpack_q(in.script[i].time).v, TRUE)
    THEN BOOLEAN
    ELSE {TRUE}

Init ==
    /\ input \in Inputs
    /\ call = NewCall(FileOf(input))
    /\ ns_bounds \in Builds(input)
    /\ folder = NoFolder

\* lines 85-90
Open ==
    /\ call.pc = "open"
    /\ call' = StepOpen(call)
    /\ UNCHANGED <<ns_bounds, input, folder>>

\* line 91
While ==
    /\ call.pc = "while"
    /\ call' = StepWhile(call)
    /\ UNCHANGED <<ns_bounds, input, folder>>

\* lines 92-94
ReadMarker ==
    /\ call.pc = "marker"
    /\ call' = StepMarker(call)
    /\ UNCHANGED <<ns_bounds, input, folder>>

\* lines 95-96
ReadPrefix ==
    /\ call.pc = "prefix"
    /\ call' = StepPrefix(call)
    /\ UNCHANGED <<ns_bounds, input, folder>>

\* lines 97-134
Dispatch ==
    /\ call.pc = "dispatch"
    /\ call' = StepDispatch(call, ns_bounds)
    /\ UNCHANGED <<ns_bounds, input, folder>>

\* lines 136-159
Frames ==
    /\ call.pc = "frames"
    /\ call' = StepFrames(call, ns_bounds)
    /\ UNCHANGED <<ns_bounds, input, folder>>

Next ==
    \/ Open
    \/ While
    \/ ReadMarker
    \/ ReadPrefix
    \/ Dispatch
    \/ Frames

Spec == Init /\ [][Next]_vars

----------------------------------------------------------------------------
(* One read_sscm_folder call *)

FolderInit ==
    /\ input = NoInput
    /\ call = IdleCall
    /\ ns_bounds \in BOOLEAN
    /\ folder \in {NewFolder(fs) : fs \in Folders}

Glob ==
    /\ folder.pc = "glob"
    /\ folder' = StepGlob(folder)
    /\ UNCHANGED <<call, ns_bounds, input>>

\* line 191, and the call of line 194
ForFile ==
    /\ folder.pc = "for"
    /\ IF folder.i <= Len(folder.files)
       THEN /\ call' = NewCall(folder.files[folder.i])
            /\ folder' = [folder EXCEPT !.pc = "calling"]
       ELSE /\ folder' = [folder EXCEPT !.pc = "merge"]
            /\ UNCHANGED call
    /\ UNCHANGED <<ns_bounds, input>>

Collect ==
    /\ folder.pc = "calling"
    /\ call.pc = "returned"
    /\ folder' = StepCollect(folder, call.ret)
    /\ UNCHANGED <<call, ns_bounds, input>>

Except ==
    /\ folder.pc = "calling"
    /\ call.pc = "raised"
    /\ folder' = StepExcept(folder)
    /\ UNCHANGED <<call, ns_bounds, input>>

Merge ==
    /\ folder.pc = "merge"
    /\ folder' = StepMerge(folder)
    /\ UNCHANGED <<call, ns_bounds, input>>

FolderNext ==
    \/ Open
    \/ While
    \/ ReadMarker
    \/ ReadPrefix
    \/ Dispatch
    \/ Frames
    \/ Glob
    \/ ForFile
    \/ Collect
    \/ Except
    \/ Merge

FolderSpec == FolderInit /\ [][FolderNext]_vars


----------------------------------------------------------------------------
(* Properties *)

FiveSequences(c) ==
    <<c.loudness, c.sharpness, c.source, c.voltage, c.event_log>>

\* the payload width the format gives each tag
PayloadWidth(tag) ==
    CASE tag = 0 -> 8
      [] tag = 1 -> 4 * Len(labels)
      [] tag \in {2, 121} -> 4
      [] tag \in {100, 120} -> 2
      [] OTHER -> 0

\* a valid header followed by whole entries with known tags
WellFormedKnown(in) ==
    /\ in.hdr = GoodHeader
    /\ \A i \in 1..Len(in.script) : in.script[i].tag \in KnownTags
    /\ in.n = Len(FullBytes(in))

\* the same input with every marker removed
Unmarked(in) ==
    WholeInput(in.hdr, in.script, FALSE)

\* the file ends inside an entry
CutMidEntry(in) ==
    /\ in.n > Len(HeaderBytes(in.hdr))
    /\ in.n \notin {Len(HeaderBytes(in.hdr))
                        + Len(BodyBytes(SubSeq(in.script, 1, k), in.marked)) :
                    k \in 0..Len(in.script)}

\* C1: a file of a valid header and well-formed entries with known tags,
\* each preceded by the marker, decodes to the same five record sequences
\* (and the same outcome) as the file with every marker removed.
C1_MarkerTolerance ==
    (Finished(call) /\ input.marked /\ WellFormedKnown(input)) =>
        LET twin == read_sscm(NewCall(FileOf(Unmarked(input))), ns_bounds)
        IN  /\ twin.pc = call.pc
            /\ FiveSequences(twin) = FiveSequences(call)
            /\ twin.ret = call.ret
            /\ twin.err = call.err

C1_Witness ==
    /\ call.pc = "returned"
    /\ input.marked
    /\ WellFormedKnown(input)
    /\ Len(input.script) = 2
    /\ call.loudness # <<>>
    /\ call.source # <<>>

\* C2: once the loop has read an entry_type that is no known tag (and the
\* 8 bytes of its time_ms), the call ends with the unknown-entry-type
\* error, and that error carries the entry_type and the entry's time_ms;
\* nothing is returned.
C2_UnknownEntryType ==
    (/\ call.entry_type \notin KnownTags
     /\ call.pos = call.entry_start + 9
     /\ call.pc # "dispatch") =>
        /\ call.pc = "raised"
        /\ call.ret = NoReturn
        /\ call.err.type = "RuntimeError"
        /\ call.err.what = "Invalid entry type"
        /\ call.err.args = <<call.entry_type, call.time_ms>>

\* C3: the loop ends cleanly only with the cursor at the end of the file at
\* the loop test; a file that ends inside an entry makes the call raise;
\* and every completed iteration consumed its entry's whole layout from
\* bytes the file holds.
C3_NoShortRecord ==
    /\ call.pc = "frames" => call.pos = call.file_size
    /\ CutMidEntry(input) => call.pc \notin {"frames", "returned"}
    /\ (call.pc = "while" /\ call.iters > 0) =>
           /\ call.pos = call.entry_start + 9 + PayloadWidth(call.entry_type)
           /\ call.pos <= call.file_size
    /\ \A i \in 1..Len(call.source) :
           Len(call.source[i]) = 1 + call.num_source_classes

C3_Witness ==
    /\ CutMidEntry(input)
    /\ call.pc = "raised"
    /\ call.err.type = "struct.error"
    /\ call.err.what = "source"
    /\ call.iters = 1
    /\ call.source = <<>>

\* C4: with the magic right, every version field other than "01" (any two
\* bytes, or a file that ends inside the field) makes the header decoder
\* fail with the unsupported-version error and no other.
C4_BadVersionUnsupported ==
    (/\ call.pc # "open"
     /\ FRead(call.data, 0, 20) = Magic
     /\ FRead(call.data, 20, 2) # Version01) =>
        /\ call.pc = "raised"
        /\ call.err.type = "RuntimeError"
        /\ call.err.what = "SSCM format version not supported"

\* C5: when read_header returns, the cursor is at 28 + L, L being byte 26;
\* the sensor name is bytes 27..27+L-1; num_source_classes is byte 27+L and
\* is 11; and the first iteration starts at 28 + L.
C5_HeaderConsumed ==
    call.body_start > 0 =>
        LET L == call.data[27]
        IN  /\ call.body_start = 20 + 2 + 4 + 1 + L + 1
            /\ call.sensor_name = SubSeq(call.data, 28, 27 + L)
            /\ call.num_source_classes = call.data[28 + L]
            /\ call.num_source_classes = 11
            /\ (call.pc = "while" /\ call.iters = 0) => call.pos = 28 + L
            /\ (call.pc = "marker" /\ call.iters = 0) =>
                   call.iter_start = 28 + L

C5_Witness ==
    /\ call.pc = "marker"
    /\ call.iters = 0
    /\ input.hdr.name = <<65>>
    /\ call.sensor_name = <<65>>
    /\ call.iter_start = 29

\* the dBA-to-SPL conversion of the type-0 entry being dispatched fails
ConversionFails(c) ==
    /\ c.pc = "dispatch"
    /\ c.entry_type = 0
    /\ c.pos + 8 <= c.file_size
    /\ SplOverflows(unpack_f(FRead(c.data, c.pos, 4)).v)

\* C6: when the conversion fails the call does not abort: no loudness
\* sample is appended, the cursor is past the 8-byte payload, the five
\* sequences are unchanged, and the loop goes on.
C6_ConversionRecovered ==
    [][ConversionFails(call) =>
           /\ call'.pc = "while"
           /\ call'.pos = call.pos + 8
           /\ FiveSequences(call') = FiveSequences(call)
           /\ call'.err = NoErr]_vars


\* the rows of a merged frame that come from file i
RowsOf(merged, i) == {k \in 1..Len(merged) : merged[k].filename = i}

\* a merged frame holds, for file i, exactly the rows of the frame read_sscm
\* returned for it
HoldsFrame(merged, i, frame) ==
    /\ Cardinality(RowsOf(merged, i)) = Len(frame)
    /\ \A k \in 1..Len(frame) :
           \E m \in RowsOf(merged, i) : merged[m].row = frame[k]

\* the files of the folder whose read_sscm call returned
Succeeded(fd) == {i \in 1..Len(fd.results) : fd.results[i] # NoReturn}

\* C7: a call that hits a fatal error returns nothing, whatever it had
\* decoded; and what read_sscm_folder returns holds no row and no sensor
\* name of a failed file, and every row of every other file.
C7_PartialOutputDiscarded ==
    /\ call.err # NoErr => (call.pc = "raised" /\ call.ret = NoReturn)
    /\ (folder.pc = "calling" /\ call.pc = "raised") =>
           Len(folder.sensor_names) = Cardinality(Succeeded(folder))
    /\ (folder.pc = "returned" /\ folder.files # <<>>) =>
           LET r == folder.ret
           IN  /\ Len(folder.results) = Len(folder.files)
               /\ Len(r.sensor_names) = Cardinality(Succeeded(folder))
               /\ \A i \in 1..Len(folder.files) :
                      LET got == IF i \in Succeeded(folder)
                                 THEN folder.results[i]
                                 ELSE [loudness |-> <<>>, sharpness |-> <<>>,
                                       source |-> <<>>, voltage |-> <<>>,
                                       event_log |-> <<>>]
                      IN  /\ HoldsFrame(r.merged_loudness, i, got.loudness)
                          /\ HoldsFrame(r.merged_sharpness, i, got.sharpness)
                          /\ HoldsFrame(r.merged_sources, i, got.source)
                          /\ HoldsFrame(r.merged_voltage, i, got.voltage)
                          /\ HoldsFrame(r.merged_event_log, i, got.event_log)

\* a folder of two files: the first failed after decoding a voltage entry,
\* the second was merged
C7_Witness ==
    /\ folder.pc = "returned"
    /\ Len(folder.files) = 2
    /\ folder.results[1] = NoReturn
    /\ folder.results[2] # NoReturn
    /\ read_sscm(NewCall(folder.files[1]), ns_bounds).voltage # <<>>
    /\ folder.ret.merged_voltage # <<>>
    /\ RowsOf(folder.ret.merged_voltage, 1) = {}

\* what a completed iteration for tag t at time tm may have done to the
\* five sequences
AppendsTo(before, after, tm) ==
    /\ Len(after) = Len(before) + 1
    /\ SubSeq(after, 1, Len(before)) = before
    /\ after[Len(after)][1] = tm

TagTable(t) ==
    CASE t = 0   -> "loudness"
      [] t = 1   -> "source"
      [] t = 2   -> "sharpness"
      [] t = 100 -> "voltage"
      [] t \in {110, 111, 120, 121} -> "event_log"
      [] OTHER   -> "none"

\* C8: an iteration that completes appends at most one record, at the end
\* of the sequence the tag table gives, with the entry's time, and leaves
\* the other four sequences as they were; no other step touches the five
\* sequences; every source record holds 1 + num_source_classes values.
C8_AppendOnly ==
    [][/\ FiveSequences(call') # FiveSequences(call) =>
              /\ call.pc = "dispatch"
              /\ call'.pc = "while"
       /\ (call.pc = "dispatch" /\ call'.pc = "while") =>
              LET t == TagTable(call.entry_type)
              IN  /\ t # "none"
                  /\ \A q \in {"loudness", "sharpness", "source", "voltage",
                               "event_log"} :
                         IF q = t
                         THEN \/ AppendsTo(call[q], call'[q], call.time_ms)
                              \/ t = "loudness" /\ call'[q] = call[q]
                         ELSE call'[q] = call[q]
                  /\ \A i \in 1..Len(call'.source) :
                         Len(call'.source[i]) = 1 + call'.num_source_classes]_vars

C8_Witness ==
    /\ call.pc = "while"
    /\ call.iters = 2
    /\ Len(call.source) = 1
    /\ Len(call.event_log) = 1
    /\ call.event_log[1][2] = "NIGHTLY_PD"

\* C9: at the read of entry_type the cursor is at the top of the iteration
\* when the two bytes read there are not the marker, and two bytes further
\* when they are; it is never before the top of the iteration.
C9_MarkerLookahead ==
    call.pc = "prefix" =>
        IF FRead(call.data, call.iter_start, 2) = Marker
        THEN call.pos = call.iter_start + 2
        ELSE call.pos = call.iter_start

\* C10: every completed iteration leaves the cursor at least 9 bytes beyond
\* its position at the top of the iteration and within the file, so the
\* loop completes at most (file size - header length) / 9 iterations; and
\* a call that has not ended is at a step it can take.
C10_LoopTerminates ==
    /\ (call.pc = "while" /\ call.iters > 0) =>
           call.pos >= call.iter_start + 9
    /\ call.pc \in {"while", "frames"} =>
           /\ call.pos <= call.file_size
           /\ 9 * call.iters <= call.pos - call.body_start
    /\ call.pc \in {"marker", "prefix", "dispatch"} =>
           9 * call.iters <= call.iter_start - call.body_start
    /\ Finished(call) \/
           call.pc \in {"open", "while", "marker", "prefix", "dispatch", "frames"}

C10_Witness ==
    /\ call.pc = "frames"
    /\ call.iters = 2
    /\ call.pos = call.body_start + 18

=============================================================================
